---- MODULE Spec2Model ----
(***************************************************************************)
(* A model of src/src/utils.ts: the URL utilities, the XMLHttpRequest      *)
(* wrapper ajaxRequest, PromiseDelegate and the Contents client.           *)
(*                                                                         *)
(* Strings that the code inspects character by character (URLs, paths)     *)
(* are sequences of one-character strings; strings the code only passes    *)
(* around (status texts, error messages, field values) are TLA+ strings.   *)
(***************************************************************************)
EXTENDS Integers, Sequences, FiniteSets, TLC

VARIABLES baseUrl, apiUrl, calls, pd, pdLog, observers, jobs,
          joinArgs, joinResult, uriArg, encodeResult

vars ==
  <<baseUrl, apiUrl, calls, pd, pdLog, observers, jobs,
    joinArgs, joinResult, uriArg, encodeResult>>

contentsVars == <<baseUrl, apiUrl, calls>>

delegateVars == <<pd, pdLog, observers, jobs>>

urlVars == <<joinArgs, joinResult, uriArg, encodeResult>>

(***************************************************************************)
(* Bounds of the model.                                                    *)
(***************************************************************************)
\* Longest checkpoint list a response carries.
MaxItems == 2

\* Number of calls in flight at once in SpecConcurrent.
MaxCalls == 2

\* Number of resolve/reject invocations on the PromiseDelegate.
MaxSettles == 3

\* Number of observers attached to the PromiseDelegate's promise.
MaxObservers == 2

\* Number of arguments of a urlPathJoin call in SpecUrl.
MaxSegments == 3

\* Length of one argument of a urlPathJoin call in SpecUrl.
MaxSegmentLen == 2

\* Length of the argument of an encodeURIComponents call in SpecUrl.
MaxUriLen == 4

(***************************************************************************)
(* Path/URL utilities (src/src/utils.ts lines 40-94).                      *)
(***************************************************************************)
Last(s) == s[Len(s)]

\* The index of the first run of two or more '/' in s, or 0.
RECURSIVE firstSlashRun(_, _)
firstSlashRun(s, i) ==
  IF i + 1 > Len(s) THEN 0
  ELSE IF s[i] = "/" /\ s[i + 1] = "/" THEN i
  ELSE firstSlashRun(s, i + 1)

\* The index of the last '/' of the run of '/' that starts at i.
RECURSIVE slashRunEnd(_, _)
slashRunEnd(s, i) ==
  IF i + 1 <= Len(s) /\ s[i + 1] = "/" THEN slashRunEnd(s, i + 1) ELSE i

\* path.replace(/\/\/+/, '/'): the first run of two or more '/' becomes one.
replaceSlashRun(s) ==
  LET i == firstSlashRun(s, 1)
  IN  IF i = 0 THEN s
      ELSE SubSeq(s, 1, i) \o SubSeq(s, slashRunEnd(s, i) + 1, Len(s))

\* The loop of urlPathJoin from index i on, with the url built so far.
\* The code assigns the replaced string to the local `path` and then appends
\* paths[i], so the replacement never reaches the url.
RECURSIVE urlPathJoinFrom(_, _, _)
urlPathJoinFrom(paths, i, url) ==
  IF i > Len(paths) THEN url
  ELSE
    LET path == IF i > 1 THEN replaceSlashRun(paths[i]) ELSE paths[i]
    IN  IF paths[i] = <<>> THEN urlPathJoinFrom(paths, i + 1, url)
        ELSE IF Len(url) > 0 /\ Last(url) # "/"
          THEN urlPathJoinFrom(paths, i + 1, url \o <<"/">> \o paths[i])
          ELSE urlPathJoinFrom(paths, i + 1, url \o paths[i])

urlPathJoin(paths) == urlPathJoinFrom(paths, 1, <<>>)

\* uri.split('/'): the pieces between the '/' of s (always at least one piece).
RECURSIVE split(_, _, _)
split(s, i, piece) ==
  IF i > Len(s) THEN <<piece>>
  ELSE IF s[i] = "/" THEN <<piece>> \o split(s, i + 1, <<>>)
  ELSE split(s, i + 1, Append(piece, s[i]))

\* pieces.join(sep)
RECURSIVE join(_, _)
join(pieces, sep) ==
  IF Len(pieces) = 0 THEN <<>>
  ELSE IF Len(pieces) = 1 THEN pieces[1]
  ELSE pieces[1] \o sep \o join(Tail(pieces), sep)

\* encodeURIComponent on one character of the model's alphabet: unreserved
\* characters stay, the others become their UTF-8 percent escapes.
encodeChar(ch) ==
  IF ch = " " THEN <<"%", "2", "0">>
  ELSE IF ch = "/" THEN <<"%", "2", "F">>
  ELSE IF ch = "%" THEN <<"%", "2", "5">>
  ELSE IF ch = "?" THEN <<"%", "3", "F">>
  ELSE IF ch = "=" THEN <<"%", "3", "D">>
  ELSE IF ch = "&" THEN <<"%", "2", "6">>
  ELSE <<ch>>

RECURSIVE encodeURIComponent(_)
encodeURIComponent(s) ==
  IF Len(s) = 0 THEN <<>> ELSE encodeChar(s[1]) \o encodeURIComponent(Tail(s))

RECURSIVE mapEncode(_)
mapEncode(pieces) ==
  IF Len(pieces) = 0 THEN <<>>
  ELSE <<encodeURIComponent(pieces[1])>> \o mapEncode(Tail(pieces))

\* Encoding the uri as one component.
encodeURIComponents_whole(uri) == encodeURIComponent(uri)

encodeURIComponents(uri) == join(mapEncode(split(uri, 1, <<>>)), <<"/">>)

urlJoinEncode(args) == encodeURIComponents(urlPathJoin(args))

\* json is the object's own keys in insertion order, as <<key, value>> pairs.
RECURSIVE mapKeyValue(_)
mapKeyValue(json) ==
  IF Len(json) = 0 THEN <<>>
  ELSE <<encodeURIComponent(json[1][1]) \o <<"=">> \o encodeURIComponent(json[1][2])>>
       \o mapKeyValue(Tail(json))

jsonToQueryString(json) == <<"?">> \o join(mapKeyValue(json), <<"&">>)

(***************************************************************************)
(* Response payloads.  A JSON value is a record [kind, items]: an object   *)
(* is one item (a function from its own property names to values), an      *)
(* array is the sequence of its elements (objects), every other value has  *)
(* no items.                                                               *)
(***************************************************************************)
Undefined == [kind |-> "undefined", items |-> <<>>]

EmptyString == [kind |-> "string", items |-> <<>>]

JNull == [kind |-> "null", items |-> <<>>]

JObject(o) == [kind |-> "object", items |-> <<o>>]

JArray(s) == [kind |-> "array", items |-> s]

ContentItemA ==
  [name |-> "a.txt", path |-> "d/a.txt", type |-> "file", created |-> "t0",
   last_modified |-> "t1", mimetype |-> "text/plain", content |-> "hello",
   format |-> "text"]

ContentItemW ==
  [name |-> "w.txt", path |-> "d/w.txt", type |-> "file", writable |-> "true",
   created |-> "t0", last_modified |-> "t1", mimetype |-> "text/plain",
   content |-> "hello", format |-> "text"]

\* A content item without its path.
ContentItemNoPath ==
  [name |-> "a.txt", type |-> "file", created |-> "t0", last_modified |-> "t1",
   mimetype |-> "text/plain", content |-> "hello", format |-> "text"]

Checkpoint1 == [id |-> "c1", last_modified |-> "t1"]

Checkpoint2 == [id |-> "c2", last_modified |-> "t2"]

\* A checkpoint without its id.
CheckpointNoId == [last_modified |-> "t1"]

CheckpointObjects == {Checkpoint1, Checkpoint2, CheckpointNoId}

SeqsUpTo(S, n) == UNION {[1..k -> S] : k \in 0..n}

JsonValues ==
  {JNull, JObject(ContentItemA), JObject(ContentItemW), JObject(ContentItemNoPath),
   JObject(Checkpoint1), JObject(CheckpointNoId)}
  \cup {JArray(s) : s \in SeqsUpTo(CheckpointObjects, MaxItems)}

\* A response body (req.response, a string): empty, text that is no JSON, or
\* the JSON text of a value.
EmptyBody == [text |-> "empty", value |-> Undefined]

MalformedBody == [text |-> "malformed", value |-> Undefined]

JsonBody(v) == [text |-> "json", value |-> v]

Bodies == {EmptyBody, MalformedBody} \cup {JsonBody(v) : v \in JsonValues}

Statuses == {200, 201, 204, 400, 500}

StatusTexts == {"", "Gone"}

(***************************************************************************)
(* The shape validator (validate.ts, not among the sources): pass or fail  *)
(* on the required fields of the expected record type; a failure is thrown.*)
(***************************************************************************)
ContentsModelFields ==
  {"name", "path", "type", "created", "last_modified", "mimetype", "content", "format"}

CheckpointModelFields == {"id", "last_modified"}

hasFields(o, fields) == fields \subseteq DOMAIN o

validateContentsModel(data) ==
  data.kind = "object" /\ hasFields(data.items[1], ContentsModelFields)

validateCheckpointModel(data) ==
  data.kind = "object" /\ hasFields(data.items[1], CheckpointModelFields)

(***************************************************************************)
(* Promises.  A promise is a record: its state and, once settled, its      *)
(* value or reason (kind says which fields are meaningful).                *)
(***************************************************************************)
Pending ==
  [state |-> "pending", kind |-> "none", data |-> Undefined, message |-> "",
   status |-> 0, statusText |-> ""]

\* return data;  (return; gives Undefined)
Return(data) == [Pending EXCEPT !.state = "fulfilled", !.kind = "value", !.data = data]

\* throw Error(message);
Throw(message) == [Pending EXCEPT !.state = "rejected", !.kind = "Error", !.message = message]

\* { data: response, statusText: req.statusText, xhr: req }
IAjaxSuccess(data, xhr) ==
  [Pending EXCEPT !.state = "fulfilled", !.kind = "IAjaxSuccess", !.data = data,
                  !.status = xhr.status, !.statusText = xhr.statusText]

\* { xhr: req, statusText: req.statusText, error: err }
IAjaxError(xhr) ==
  [Pending EXCEPT !.state = "rejected", !.kind = "IAjaxError",
                  !.status = xhr.status, !.statusText = xhr.statusText]

\* Resolving functions that do not look at the state of the promise.
PromiseSettle_unguarded(promise, outcome) == outcome

\* The resolve and reject functions a Promise executor receives: they settle
\* a pending promise and do nothing to a settled one.
PromiseSettle(promise, outcome) ==
  IF promise.state = "pending" THEN outcome ELSE promise

Settled(promise) == promise.state \in {"fulfilled", "rejected"}

\* promise.then(onFulfilled, onRejected): the promise it returns, once the
\* reaction job has run; fulfilled is what onFulfilled gives on the promise's
\* value, rejected what onRejected gives on its reason.
then(promise, fulfilled, rejected) ==
  IF promise.state = "fulfilled" THEN fulfilled
  ELSE IF promise.state = "rejected" THEN rejected
  ELSE Pending

\* then(onFulfilled) without a rejection handler passes the reason on.
rethrow(error) == error

InvalidStatus(status) == "Invalid Status: " \o ToString(status)

(***************************************************************************)
(* The Contents client: the reaction of each operation to the transport's  *)
(* outcome (`success` is the IAjaxSuccess, `error` the IAjaxError).        *)
(***************************************************************************)
\* get calling the validator before it looks at the status.
get_then_validatesFirst(success) ==
  IF ~validateContentsModel(success.data) THEN Throw("Invalid Contents Model")
  ELSE IF success.status # 200 THEN Throw(InvalidStatus(success.status))
  ELSE Return(success.data)

\* get without the call of the validator.
get_then_unvalidated(success) ==
  IF success.status # 200 THEN Throw(InvalidStatus(success.status))
  ELSE Return(success.data)

get_then(success) ==
  IF success.status # 200 THEN Throw(InvalidStatus(success.status))
  ELSE IF ~validateContentsModel(success.data) THEN Throw("Invalid Contents Model")
  ELSE Return(success.data)

newUntitled_then(success) ==
  IF success.status # 201 THEN Throw(InvalidStatus(success.status))
  ELSE IF ~validateContentsModel(success.data) THEN Throw("Invalid Contents Model")
  ELSE Return(success.data)

delete_then(success) ==
  IF success.status # 204 THEN Throw(InvalidStatus(success.status))
  ELSE Return(Undefined)

\* delete's rejection handler without the special case of status 400.
delete_catch_generic(error) == Throw(error.statusText)

\* Translate certain errors to more specific ones.
delete_catch(error) ==
  IF error.status = 400 THEN Throw("Directory not found")
  ELSE Throw(error.statusText)

rename_then(success) ==
  IF success.status # 200 THEN Throw(InvalidStatus(success.status))
  ELSE IF ~validateContentsModel(success.data) THEN Throw("Invalid Contents Model")
  ELSE Return(success.data)

\* save accepting 200 alone.
save_then_only200(success) ==
  IF success.status # 200 THEN Throw(InvalidStatus(success.status))
  ELSE IF ~validateContentsModel(success.data) THEN Throw("Invalid Contents Model")
  ELSE Return(success.data)

\* will return 200 for an existing file and 201 for a new file
save_then(success) ==
  IF success.status # 200 /\ success.status # 201
    THEN Throw(InvalidStatus(success.status))
  ELSE IF ~validateContentsModel(success.data) THEN Throw("Invalid Contents Model")
  ELSE Return(success.data)

copy_then(success) ==
  IF success.status # 201 THEN Throw(InvalidStatus(success.status))
  ELSE IF ~validateContentsModel(success.data) THEN Throw("Invalid Contents Model")
  ELSE Return(success.data)

createCheckpoint_then(success) ==
  IF success.status # 201 THEN Throw(InvalidStatus(success.status))
  ELSE IF ~validateCheckpointModel(success.data) THEN Throw("Invalid Checkpoint Model")
  ELSE Return(success.data)

\* listCheckpoints without the Array.isArray check.
listCheckpoints_then_noArrayCheck(success) ==
  IF success.status # 200 THEN Throw(InvalidStatus(success.status))
  ELSE IF \E i \in 1..Len(success.data.items) :
            ~validateCheckpointModel(JObject(success.data.items[i]))
    THEN Throw("Invalid Checkpoint Model")
  ELSE Return(success.data)

listCheckpoints_then(success) ==
  IF success.status # 200 THEN Throw(InvalidStatus(success.status))
  ELSE IF success.data.kind # "array" THEN Throw("Invalid Checkpoint list")
  ELSE IF \E i \in 1..Len(success.data.items) :
            ~validateCheckpointModel(JObject(success.data.items[i]))
    THEN Throw("Invalid Checkpoint Model")
  ELSE Return(success.data)

restoreCheckpoint_then(success) ==
  IF success.status # 204 THEN Throw(InvalidStatus(success.status))
  ELSE Return(Undefined)

deleteCheckpoint_then(success) ==
  IF success.status # 204 THEN Throw(InvalidStatus(success.status))
  ELSE Return(Undefined)

Operations ==
  {"get", "listContents", "newUntitled", "delete", "rename", "save", "copy",
   "createCheckpoint", "listCheckpoints", "restoreCheckpoint", "deleteCheckpoint"}

\* The promise an operation returns, given the promise of its ajaxRequest.
\* listContents returns what get returns.
returned(op, transport) ==
  CASE op \in {"get", "listContents"} ->
         then(transport, get_then(transport), rethrow(transport))
    [] op = "newUntitled" ->
         then(transport, newUntitled_then(transport), rethrow(transport))
    [] op = "delete" ->
         then(transport, delete_then(transport), delete_catch(transport))
    [] op = "rename" ->
         then(transport, rename_then(transport), rethrow(transport))
    [] op = "save" ->
         then(transport, save_then(transport), rethrow(transport))
    [] op = "copy" ->
         then(transport, copy_then(transport), rethrow(transport))
    [] op = "createCheckpoint" ->
         then(transport, createCheckpoint_then(transport), rethrow(transport))
    [] op = "listCheckpoints" ->
         then(transport, listCheckpoints_then(transport), rethrow(transport))
    [] op = "restoreCheckpoint" ->
         then(transport, restoreCheckpoint_then(transport), rethrow(transport))
    [] op = "deleteCheckpoint" ->
         then(transport, deleteCheckpoint_then(transport), rethrow(transport))

\* The elements of a checkpoint list that the loop of listCheckpoints hands
\* to the validator, in order: the loop ends where the validator throws.
RECURSIVE listCheckpoints_loop(_, _)
listCheckpoints_loop(items, i) ==
  IF i > Len(items) THEN <<>>
  ELSE IF ~validateCheckpointModel(JObject(items[i])) THEN <<JObject(items[i])>>
  ELSE <<JObject(items[i])>> \o listCheckpoints_loop(items, i + 1)

\* The values the fulfilment handler of an operation hands to the validator,
\* in order.
validated(op, success) ==
  CASE op \in {"get", "listContents", "rename"} ->
         IF success.status # 200 THEN <<>> ELSE <<success.data>>
    [] op \in {"newUntitled", "copy", "createCheckpoint"} ->
         IF success.status # 201 THEN <<>> ELSE <<success.data>>
    [] op = "save" ->
         IF success.status # 200 /\ success.status # 201 THEN <<>> ELSE <<success.data>>
    [] op = "listCheckpoints" ->
         IF success.status # 200 THEN <<>>
         ELSE IF success.data.kind # "array" THEN <<>>
         ELSE listCheckpoints_loop(success.data.items, 1)
    [] op \in {"delete", "restoreCheckpoint", "deleteCheckpoint"} -> <<>>

\* The fulfilment handler runs when the promise of ajaxRequest is fulfilled.
consulted(op, transport) ==
  IF transport.state = "fulfilled" THEN validated(op, transport) ELSE <<>>

(***************************************************************************)
(* The request each operation sends.  An optional string is <<>> when      *)
(* undefined and <<s>> when it is the string s.  A request body            *)
(* (JSON.stringify of an object) is the sequence of the <<key, value>>     *)
(* pairs of its defined properties.                                        *)
(***************************************************************************)
SERVICE_CONTENTS_URL == <<"a", "p", "i", "/", "c", "o", "n", "t", "e", "n", "t", "s">>

NoData == [defined |-> FALSE, json |-> <<>>]

stringify(pairs) == [defined |-> TRUE, json |-> pairs]

\* A property whose value is undefined is left out by JSON.stringify.
property(key, opt) == IF Len(opt) = 0 THEN <<>> ELSE <<<<key, opt[1]>>>>

\* if (x) on an optional string: undefined and '' are falsy.
truthy(opt) == Len(opt) = 1 /\ Len(opt[1]) > 0

_getUrl(api, args) == urlPathJoin(<<api, urlJoinEncode(args)>>)

\* get sending content=0 whenever options.content is falsy.
get_params_contentFalsy(options) ==
  (IF truthy(options.type) THEN <<<<<<"t", "y", "p", "e">>, options.type[1]>>>> ELSE <<>>)
  \o (IF truthy(options.format)
        THEN <<<<<<"f", "o", "r", "m", "a", "t">>, options.format[1]>>>> ELSE <<>>)
  \o (IF options.content # "true"
        THEN <<<<<<"c", "o", "n", "t", "e", "n", "t">>, <<"0">>>>>> ELSE <<>>)

\* The query parameters get collects from its options.
get_params(options) ==
  (IF truthy(options.type) THEN <<<<<<"t", "y", "p", "e">>, options.type[1]>>>> ELSE <<>>)
  \o (IF truthy(options.format)
        THEN <<<<<<"f", "o", "r", "m", "a", "t">>, options.format[1]>>>> ELSE <<>>)
  \o (IF options.content = "false"
        THEN <<<<<<"c", "o", "n", "t", "e", "n", "t">>, <<"0">>>>>> ELSE <<>>)

get(api, path, options) ==
  [url |-> _getUrl(api, <<path>>) \o jsonToQueryString(get_params(options)),
   settings |-> [method |-> "GET", dataType |-> "json", contentType |-> "",
                 data |-> NoData]]

\* newUntitled sending the serialized options even when none were given.
newUntitled_alwaysBody(api, path, hasOptions, options) ==
  [url |-> _getUrl(api, <<path>>),
   settings |-> [method |-> "POST", dataType |-> "json",
                 contentType |-> "application/json",
                 data |-> stringify(property("ext", options.ext)
                                    \o property("type", options.type))]]

newUntitled(api, path, hasOptions, options) ==
  [url |-> _getUrl(api, <<path>>),
   settings |->
     IF hasOptions
       THEN [method |-> "POST", dataType |-> "json",
             contentType |-> "application/json",
             data |-> stringify(property("ext", options.ext)
                                \o property("type", options.type))]
       ELSE [method |-> "POST", dataType |-> "json", contentType |-> "",
             data |-> NoData]]

delete(api, path) ==
  [url |-> _getUrl(api, <<path>>),
   settings |-> [method |-> "DELETE", dataType |-> "json", contentType |-> "",
                 data |-> NoData]]

rename(api, path, newPath) ==
  [url |-> _getUrl(api, <<path>>),
   settings |-> [method |-> "PATCH", dataType |-> "json",
                 contentType |-> "application/json",
                 data |-> stringify(<<<<"path", newPath>>>>)]]

save(api, path, model) ==
  [url |-> _getUrl(api, <<path>>),
   settings |-> [method |-> "PUT", dataType |-> "json",
                 contentType |-> "application/json",
                 data |-> stringify(property("type", model.type)
                                    \o property("format", model.format)
                                    \o (IF model.content = "undefined" THEN <<>>
                                        ELSE <<<<"content", model.content>>>>)
                                    \o property("ext", model.ext))]]

copy(api, fromFile, toDir) ==
  [url |-> _getUrl(api, <<toDir>>),
   settings |-> [method |-> "POST", dataType |-> "json",
                 contentType |-> "application/json",
                 data |-> stringify(<<<<"copy_from", fromFile>>>>)]]

createCheckpoint(api, path) ==
  [url |-> _getUrl(api, <<path, <<"c", "h", "e", "c", "k", "p", "o", "i", "n", "t", "s">>>>),
   settings |-> [method |-> "POST", dataType |-> "json", contentType |-> "",
                 data |-> NoData]]

listCheckpoints(api, path) ==
  [url |-> _getUrl(api, <<path, <<"c", "h", "e", "c", "k", "p", "o", "i", "n", "t", "s">>>>),
   settings |-> [method |-> "GET", dataType |-> "json", contentType |-> "",
                 data |-> NoData]]

restoreCheckpoint(api, path, checkpointID) ==
  [url |-> _getUrl(api, <<path, <<"c", "h", "e", "c", "k", "p", "o", "i", "n", "t", "s">>,
                         checkpointID>>),
   settings |-> [method |-> "POST", dataType |-> "json", contentType |-> "",
                 data |-> NoData]]

deleteCheckpoint(api, path, checkpointID) ==
  [url |-> _getUrl(api, <<path, <<"c", "h", "e", "c", "k", "p", "o", "i", "n", "t", "s">>,
                         checkpointID>>),
   settings |-> [method |-> "DELETE", dataType |-> "json", contentType |-> "",
                 data |-> NoData]]

\* listContents asking for the type 'file'.
listContents_file(api, path) ==
  get(api, path, [type |-> <<<<"f", "i", "l", "e">>>>, format |-> <<>>,
                  content |-> "undefined", ext |-> <<>>])

NoOptions == [type |-> <<>>, format |-> <<>>, content |-> "undefined", ext |-> <<>>]

listContents(api, path) ==
  get(api, path, [NoOptions EXCEPT !.type = <<<<"d", "i", "r", "e", "c", "t", "o", "r", "y">>>>])

\* An invocation of an operation: [op, path, second, hasOptions, options],
\* where second is newPath, toDir or checkpointID, and options is also save's
\* model.
ajaxCall(api, inv) ==
  CASE inv.op = "get" -> get(api, inv.path, inv.options)
    [] inv.op = "listContents" -> listContents(api, inv.path)
    [] inv.op = "newUntitled" -> newUntitled(api, inv.path, inv.hasOptions, inv.options)
    [] inv.op = "delete" -> delete(api, inv.path)
    [] inv.op = "rename" -> rename(api, inv.path, inv.second)
    [] inv.op = "save" -> save(api, inv.path, inv.options)
    [] inv.op = "copy" -> copy(api, inv.path, inv.second)
    [] inv.op = "createCheckpoint" -> createCheckpoint(api, inv.path)
    [] inv.op = "listCheckpoints" -> listCheckpoints(api, inv.path)
    [] inv.op = "restoreCheckpoint" -> restoreCheckpoint(api, inv.path, inv.second)
    [] inv.op = "deleteCheckpoint" -> deleteCheckpoint(api, inv.path, inv.second)

\* ajaxRequest up to req.send: the request that goes out.  The Content-Type
\* header is set when settings.contentType is truthy, a body is sent when
\* settings.data is truthy (a JSON text never is the empty string).
ajaxRequest(url, settings) ==
  [method |-> settings.method,
   url |-> url,
   contentType |-> IF settings.contentType # "" THEN settings.contentType ELSE "",
   hasBody |-> settings.data.defined,
   body |-> IF settings.data.defined THEN settings.data.json ELSE <<>>,
   dataType |-> settings.dataType]

(***************************************************************************)
(* The inputs: constructor arguments, invocations and server responses.    *)
(***************************************************************************)
BaseUrls == {<<"h">>, <<"h", "/">>}

\* 'a b', '/d/a', 'd/' and the empty path.
Paths == {<<"a", " ", "b">>, <<"/", "d", "/", "a">>, <<"d", "/">>, <<>>}

OptionsAll ==
  [type |-> <<<<"f", "i", "l", "e">>>>, format |-> <<<<"t", "e", "x", "t">>>>,
   content |-> "false", ext |-> <<<<".", "p", "y">>>>]

\* type is the empty string, content is true.
OptionsEmptyType == [NoOptions EXCEPT !.type = <<<<>>>>, !.content = "true"]

\* {type: 'directory'}
OptionsDirectory ==
  [NoOptions EXCEPT !.type = <<<<"d", "i", "r", "e", "c", "t", "o", "r", "y">>>>]

\* Only format is set, to 'a b'.
OptionsFormatOnly == [NoOptions EXCEPT !.format = <<<<"a", " ", "b">>>>]

NoInvocation ==
  [op |-> "none", path |-> <<>>, second |-> <<>>, hasOptions |-> FALSE,
   options |-> NoOptions]

InvocationsOf(op, paths) ==
  CASE op = "get" ->
         {[NoInvocation EXCEPT !.op = op, !.path = p, !.hasOptions = TRUE, !.options = o] :
            p \in paths,
            o \in {NoOptions, OptionsAll, OptionsEmptyType, OptionsFormatOnly}}
    [] op = "newUntitled" ->
         {[NoInvocation EXCEPT !.op = op, !.path = p] : p \in paths}
         \cup {[NoInvocation EXCEPT !.op = op, !.path = p, !.hasOptions = TRUE,
                                    !.options = o] : p \in paths, o \in {OptionsAll, NoOptions}}
    [] op = "save" ->
         {[NoInvocation EXCEPT !.op = op, !.path = p, !.hasOptions = TRUE,
                               !.options = OptionsAll] : p \in paths}
    [] op \in {"rename", "copy"} ->
         {[NoInvocation EXCEPT !.op = op, !.path = p, !.second = <<"d", "/", "n">>] :
            p \in paths}
    [] op \in {"restoreCheckpoint", "deleteCheckpoint"} ->
         {[NoInvocation EXCEPT !.op = op, !.path = p, !.second = <<"c", "1">>] :
            p \in paths}
    [] OTHER -> {[NoInvocation EXCEPT !.op = op, !.path = p] : p \in paths}

Invocations == UNION {InvocationsOf(op, Paths) : op \in Operations}

\* The inputs of the runs with several calls in flight.
ConcurrentInvocations ==
  UNION {InvocationsOf(op, {<<"a", " ", "b">>}) :
           op \in {"delete", "save", "listCheckpoints"}}

ConcurrentStatuses == {200, 204, 400}

ConcurrentBodies ==
  {MalformedBody, JsonBody(JObject(ContentItemA)), JsonBody(JArray(<<Checkpoint1>>))}

(***************************************************************************)
(* State.  calls[c] is one call on the client: its invocation, the         *)
(* requests it has sent, its XMLHttpRequest, the promise of ajaxRequest    *)
(* (transport) and the promise the operation returned to the caller.       *)
(***************************************************************************)
CallIds == 1..MaxCalls

UnsentXhr == [event |-> "none", status |-> 0, statusText |-> "", response |-> EmptyBody]

IdleCall ==
  [inv |-> NoInvocation, requests |-> <<>>, xhr |-> UnsentXhr,
   transport |-> Pending, promise |-> Pending, validated |-> <<>>]

InitContents ==
  /\ baseUrl \in BaseUrls
  /\ apiUrl = urlPathJoin(<<baseUrl, SERVICE_CONTENTS_URL>>)
  /\ calls = [c \in CallIds |-> IdleCall]

InitDelegate ==
  /\ pd = Pending
  /\ pdLog = <<>>
  /\ observers = <<>>
  /\ jobs = <<>>

Init ==
  /\ InitContents
  /\ InitDelegate
  /\ joinArgs = <<>>
  /\ joinResult = <<>>
  /\ uriArg = <<>>
  /\ encodeResult = <<>>

\* An operation that keeps the url of its request as the client's API root.
Call_storesUrl(c, inv) ==
  /\ calls[c].inv.op = "none"
  /\ LET built == ajaxCall(apiUrl, inv)
     IN  /\ calls' = [calls EXCEPT ![c] =
                        [inv |-> inv,
                         requests |-> <<ajaxRequest(built.url, built.settings)>>,
                         xhr |-> UnsentXhr,
                         transport |-> Pending,
                         promise |-> returned(inv.op, Pending),
                         validated |-> <<>>]]
         /\ apiUrl' = built.url
  /\ UNCHANGED <<baseUrl, delegateVars, urlVars>>

\* The caller invokes an operation: the request is built and sent, and the
\* operation returns the promise of ajaxRequest(...).then(...).
Call(c, inv) ==
  /\ calls[c].inv.op = "none"
  /\ LET built == ajaxCall(apiUrl, inv)
     IN  calls' = [calls EXCEPT ![c] =
                     [inv |-> inv,
                      requests |-> <<ajaxRequest(built.url, built.settings)>>,
                      xhr |-> UnsentXhr,
                      transport |-> Pending,
                      promise |-> returned(inv.op, Pending),
                      validated |-> <<>>]]
  /\ UNCHANGED <<baseUrl, apiUrl, delegateVars, urlVars>>

\* req.onload: JSON.parse throws on a body that is no JSON, and the handler
\* then ends before resolve is reached.
ajaxRequest_onload(dataType, transport, req) ==
  IF dataType = "json" /\ req.response.text # "empty"
    THEN IF req.response.text = "malformed" THEN transport
         ELSE PromiseSettle(transport, IAjaxSuccess(req.response.value, req))
    ELSE PromiseSettle(transport, IAjaxSuccess(EmptyString, req))

\* req.onerror
ajaxRequest_onerror(transport, req) == PromiseSettle(transport, IAjaxError(req))

InFlight(c) == calls[c].inv.op # "none" /\ calls[c].xhr.event = "none"

\* The request's load event, and the promise reactions it sets off.
onload(c, status, statusText, body) ==
  /\ InFlight(c)
  /\ LET req == [event |-> "load", status |-> status, statusText |-> statusText,
                 response |-> body]
         transport == ajaxRequest_onload(Last(calls[c].requests).dataType,
                                         calls[c].transport, req)
     IN  calls' = [calls EXCEPT ![c].xhr = req,
                                ![c].transport = transport,
                                ![c].promise = returned(calls[c].inv.op, transport),
                                ![c].validated = consulted(calls[c].inv.op, transport)]
  /\ UNCHANGED <<baseUrl, apiUrl, delegateVars, urlVars>>

\* An error handler that sends the request once more instead of rejecting.
onerror_retry(c, status, statusText) ==
  /\ InFlight(c)
  /\ Len(calls[c].requests) < 2
  /\ calls' = [calls EXCEPT ![c].requests = Append(@, Last(@))]
  /\ UNCHANGED <<baseUrl, apiUrl, delegateVars, urlVars>>

\* The request's error event, and the promise reactions it sets off.
onerror(c, status, statusText) ==
  /\ InFlight(c)
  /\ LET req == [event |-> "error", status |-> status, statusText |-> statusText,
                 response |-> EmptyBody]
         transport == ajaxRequest_onerror(calls[c].transport, req)
     IN  calls' = [calls EXCEPT ![c].xhr = req,
                                ![c].transport = transport,
                                ![c].promise = returned(calls[c].inv.op, transport)]
  /\ UNCHANGED <<baseUrl, apiUrl, delegateVars, urlVars>>

\* The request's abort event: ajaxRequest registers no handler for it.
onabort(c) ==
  /\ InFlight(c)
  /\ calls' = [calls EXCEPT ![c].xhr =
                 [event |-> "abort", status |-> 0, statusText |-> "",
                  response |-> EmptyBody]]
  /\ UNCHANGED <<baseUrl, apiUrl, delegateVars, urlVars>>

\* One call at a time, every invocation and every response.
Next ==
  \E c \in {1} :
    \/ \E inv \in Invocations : Call(c, inv)
    \/ \E status \in Statuses, statusText \in StatusTexts, body \in Bodies :
         onload(c, status, statusText, body)
    \/ \E status \in Statuses, statusText \in StatusTexts : onerror(c, status, statusText)
    \/ onabort(c)

Spec == Init /\ [][Next]_vars

\* Several calls in flight, their completion events in any order.
NextConcurrent ==
  \E c \in CallIds :
    \/ \E inv \in ConcurrentInvocations : Call(c, inv)
    \/ \E status \in ConcurrentStatuses, body \in ConcurrentBodies :
         onload(c, status, "Gone", body)
    \/ \E status \in ConcurrentStatuses : onerror(c, status, "Gone")
    \/ onabort(c)

SpecConcurrent == Init /\ [][NextConcurrent]_vars

\* The inputs of the runs that list a directory both ways.
ListingInvocations ==
  {[NoInvocation EXCEPT !.op = "listContents", !.path = p] :
     p \in {<<"a", " ", "b">>, <<"/", "d", "/", "a">>}}
  \cup {[NoInvocation EXCEPT !.op = "get", !.path = p, !.hasOptions = TRUE,
                             !.options = OptionsDirectory] :
          p \in {<<"a", " ", "b">>, <<"/", "d", "/", "a">>}}

\* Calls of listContents and of get with {type: 'directory'} side by side.
NextListing ==
  \E c \in CallIds :
    \/ \E inv \in ListingInvocations : Call(c, inv)
    \/ \E status \in ConcurrentStatuses, body \in ConcurrentBodies :
         onload(c, status, "Gone", body)
    \/ \E status \in ConcurrentStatuses : onerror(c, status, "Gone")
    \/ onabort(c)

SpecListing == Init /\ [][NextListing]_vars

(***************************************************************************)
(* PromiseDelegate.  pd is the underlying promise, pdLog the resolve and   *)
(* reject invocations so far, observers the reactions attached with then   *)
(* (how often each was notified, and with what), jobs the queue of         *)
(* reaction jobs.  A thenable passed to resolve is the outcome it will     *)
(* have, in state "locked:fulfilled" or "locked:rejected": the promise is  *)
(* then resolved but not yet settled.                                      *)
(***************************************************************************)
Thenable(outcome) == [outcome EXCEPT !.state = "locked:" \o outcome.state]

\* The outcome a promise locked to a thenable takes once the thenable settles.
Unlocked(promise) ==
  IF promise.state = "locked:fulfilled" THEN [promise EXCEPT !.state = "fulfilled"]
  ELSE IF promise.state = "locked:rejected" THEN [promise EXCEPT !.state = "rejected"]
  ELSE promise

ResolveValues ==
  {Return(JNull), Return(JObject(Checkpoint1)),
   Thenable(Return(JObject(Checkpoint2))), Thenable(Throw("thenable failed"))}

RejectReasons == {Throw("first reason"), Throw("second reason")}

\* The reaction jobs queued when the promise goes from before to after.
reactionJobs(before, after) ==
  IF ~Settled(before) /\ Settled(after)
    THEN [i \in 1..Len(observers) |-> i]
    ELSE <<>>

\* PromiseDelegate.resolve(value)
resolve(value) ==
  /\ Len(pdLog) < MaxSettles
  /\ pd' = PromiseSettle(pd, value)
  /\ pdLog' = Append(pdLog, value)
  /\ jobs' = jobs \o reactionJobs(pd, pd')
  /\ UNCHANGED <<contentsVars, urlVars, observers>>

\* PromiseDelegate.reject(reason)
reject(reason) ==
  /\ Len(pdLog) < MaxSettles
  /\ pd' = PromiseSettle(pd, reason)
  /\ pdLog' = Append(pdLog, reason)
  /\ jobs' = jobs \o reactionJobs(pd, pd')
  /\ UNCHANGED <<contentsVars, urlVars, observers>>

\* The thenable the promise was resolved with settles.
thenableSettles ==
  /\ pd.state \in {"locked:fulfilled", "locked:rejected"}
  /\ pd' = Unlocked(pd)
  /\ jobs' = jobs \o reactionJobs(pd, pd')
  /\ UNCHANGED <<contentsVars, urlVars, pdLog, observers>>

\* delegate.promise.then(observer): on a settled promise the reaction job is
\* queued at once.
promise_then ==
  /\ Len(observers) < MaxObservers
  /\ observers' = Append(observers,
                         [notified |-> 0, seen |-> Pending, early |-> ~Settled(pd)])
  /\ jobs' = IF Settled(pd) THEN Append(jobs, Len(observers) + 1) ELSE jobs
  /\ UNCHANGED <<contentsVars, urlVars, pd, pdLog>>

\* The next reaction job runs: its observer is notified of the outcome.
runReaction ==
  /\ jobs # <<>>
  /\ observers' = [observers EXCEPT ![Head(jobs)].notified = @ + 1,
                                    ![Head(jobs)].seen = pd]
  /\ jobs' = Tail(jobs)
  /\ UNCHANGED <<contentsVars, urlVars, pd, pdLog>>

NextDelegate ==
  \/ \E value \in ResolveValues : resolve(value)
  \/ \E reason \in RejectReasons : reject(reason)
  \/ thenableSettles
  \/ promise_then
  \/ runReaction

SpecDelegate == Init /\ [][NextDelegate]_vars

(***************************************************************************)
(* The URL utilities on their own.  joinArgs is the argument list of a     *)
(* urlPathJoin call and uriArg the argument of an encodeURIComponents      *)
(* call; a result is <<>> before the call and <<r>> once it returned r.    *)
(***************************************************************************)
StringsUpTo(alphabet, n) == SeqsUpTo(alphabet, n)

JoinArgLists == SeqsUpTo(StringsUpTo({"a", "/"}, MaxSegmentLen), MaxSegments)

Uris == StringsUpTo({"a", " ", "/"}, MaxUriLen)

InitUrl ==
  /\ InitContents
  /\ InitDelegate
  /\ joinResult = <<>>
  /\ encodeResult = <<>>
  /\ \/ joinArgs \in JoinArgLists /\ uriArg = <<>>
     \/ joinArgs = <<>> /\ uriArg \in Uris

\* urlPathJoin(...joinArgs)
urlPathJoin_call ==
  /\ joinResult = <<>>
  /\ joinResult' = <<urlPathJoin(joinArgs)>>
  /\ UNCHANGED <<contentsVars, delegateVars, joinArgs, uriArg, encodeResult>>

\* encodeURIComponents(uriArg)
encodeURIComponents_call ==
  /\ encodeResult = <<>>
  /\ encodeResult' = <<encodeURIComponents(uriArg)>>
  /\ UNCHANGED <<contentsVars, delegateVars, joinArgs, joinResult, uriArg>>

NextUrl ==
  \/ urlPathJoin_call
  \/ encodeURIComponents_call

SpecUrl == InitUrl /\ [][NextUrl]_vars

(***************************************************************************)
(* Properties of the Contents client.                                      *)
(***************************************************************************)
\* The statuses the operation table accepts.
AcceptedStatuses(op) ==
  CASE op \in {"get", "listContents", "rename", "listCheckpoints"} -> {200}
    [] op \in {"newUntitled", "copy", "createCheckpoint"} -> {201}
    [] op = "save" -> {200, 201}
    [] op \in {"delete", "restoreCheckpoint", "deleteCheckpoint"} -> {204}
    [] OTHER -> {}

ValidatedOperations ==
  {"get", "listContents", "newUntitled", "save", "rename", "copy",
   "createCheckpoint", "listCheckpoints"}

\* The payload has the shape the operation returns.
ShapeOk(op, data) ==
  CASE op = "createCheckpoint" -> validateCheckpointModel(data)
    [] op = "listCheckpoints" ->
         /\ data.kind = "array"
         /\ \A i \in 1..Len(data.items) : validateCheckpointModel(JObject(data.items[i]))
    [] OTHER -> validateContentsModel(data)

Issued == {c \in CallIds : calls[c].inv.op # "none"}

\* C1: after a load event with a status outside the operation's accepted set,
\* whatever the body, the returned promise is rejected.
C1_StatusGate ==
  \A c \in Issued :
    (calls[c].xhr.event = "load"
       /\ calls[c].xhr.status \notin AcceptedStatuses(calls[c].inv.op))
      => calls[c].promise.state = "rejected"

\* The part of C1 that the code keeps: such a response never resolves the
\* call, and it rejects the call with 'Invalid Status: <status>' whenever the
\* body is empty or is JSON.
StatusGateOnParsedBodies ==
  \A c \in Issued :
    (calls[c].xhr.event = "load"
       /\ calls[c].xhr.status \notin AcceptedStatuses(calls[c].inv.op))
      => /\ calls[c].promise.state # "fulfilled"
         /\ calls[c].xhr.response.text # "malformed"
              => /\ calls[c].promise.state = "rejected"
                 /\ calls[c].promise.message = InvalidStatus(calls[c].xhr.status)

\* C2: a value delivered by a validated operation has passed the validator,
\* and a payload with an accepted status that fails validation rejects the call.
C2_ValidationGate ==
  \A c \in Issued :
    calls[c].inv.op \in ValidatedOperations
      => /\ calls[c].promise.state = "fulfilled"
              => ShapeOk(calls[c].inv.op, calls[c].promise.data)
         /\ (/\ calls[c].transport.state = "fulfilled"
             /\ calls[c].transport.status \in AcceptedStatuses(calls[c].inv.op)
             /\ ~ShapeOk(calls[c].inv.op, calls[c].transport.data))
              => calls[c].promise.state = "rejected"

\* A get answered 200 with a content item that lacks its path was rejected, and
\* so was a listCheckpoints answered 200 with a list whose second element is
\* no checkpoint.
C2_Witness ==
  \E c \in Issued :
    /\ calls[c].xhr.status = 200
    /\ calls[c].promise.state = "rejected"
    /\ \/ /\ calls[c].inv.op = "get"
          /\ calls[c].transport.data = JObject(ContentItemNoPath)
       \/ /\ calls[c].inv.op = "listCheckpoints"
          /\ calls[c].transport.data = JArray(<<Checkpoint1, CheckpointNoId>>)

\* C3: once the request has finished with a load event, whatever the status
\* and the body, the returned promise is settled.
C3_FinishedRequestSettles ==
  \A c \in Issued :
    calls[c].xhr.event = "load" => Settled(calls[c].promise)

\* C4: delete rejects a response of status 400 with 'Directory not found' and
\* a response of any other status but 204 with the status text.
C4_DeleteStatusMessages ==
  \A c \in Issued :
    (calls[c].inv.op = "delete" /\ calls[c].xhr.event = "load"
       /\ calls[c].xhr.status # 204 /\ calls[c].xhr.response.text # "malformed")
      => /\ calls[c].promise.state = "rejected"
         /\ calls[c].promise.message =
              IF calls[c].xhr.status = 400 THEN "Directory not found"
              ELSE calls[c].xhr.statusText

\* C5: an accepted status with a valid payload resolves the call with the
\* payload itself.
C5_HappyPath ==
  \A c \in Issued :
    (/\ calls[c].inv.op \in ValidatedOperations
     /\ calls[c].xhr.event = "load"
     /\ calls[c].xhr.status \in AcceptedStatuses(calls[c].inv.op)
     /\ calls[c].xhr.response.text = "json"
     /\ ShapeOk(calls[c].inv.op, calls[c].xhr.response.value))
      => /\ calls[c].promise.state = "fulfilled"
         /\ calls[c].promise.data = calls[c].xhr.response.value

\* A save answered 201 resolved with the content item of the response, and a
\* listCheckpoints resolved with two checkpoints in the order received.
C5_Witness ==
  \E c \in Issued :
    /\ calls[c].promise.state = "fulfilled"
    /\ \/ /\ calls[c].inv.op = "save"
          /\ calls[c].xhr.status = 201
          /\ calls[c].promise.data = JObject(ContentItemW)
       \/ /\ calls[c].inv.op = "listCheckpoints"
          /\ calls[c].promise.data = JArray(<<Checkpoint2, Checkpoint1>>)

\* The failure carries the status text of the request.
CarriesStatusText(promise, xhr) ==
  \/ promise.kind = "IAjaxError" /\ promise.statusText = xhr.statusText
  \/ promise.kind = "Error" /\ promise.message = xhr.statusText

\* C6: a request that ends in an error or an abort rejects the call with a
\* failure that carries the status text.
C6_TransportFailureSurfaced ==
  \A c \in Issued :
    calls[c].xhr.event \in {"error", "abort"}
      => /\ calls[c].promise.state = "rejected"
         /\ CarriesStatusText(calls[c].promise, calls[c].xhr)

\* The part of C6 that the code keeps: an error event rejects every operation
\* but delete with the IAjaxError and its status text.
ErrorEventSurfaced ==
  \A c \in Issued :
    (calls[c].xhr.event = "error" /\ calls[c].inv.op # "delete")
      => /\ calls[c].promise.state = "rejected"
         /\ calls[c].promise.kind = "IAjaxError"
         /\ calls[c].promise.statusText = calls[c].xhr.statusText

\* C7: delete turns a transport failure of status 400 into 'Directory not
\* found' and any other transport failure into an Error of the status text.
C7_DeleteTransportFailure ==
  \A c \in Issued :
    (calls[c].inv.op = "delete" /\ calls[c].transport.state = "rejected")
      => /\ calls[c].promise.state = "rejected"
         /\ calls[c].promise.kind = "Error"
         /\ calls[c].promise.message =
              IF calls[c].transport.status = 400 THEN "Directory not found"
              ELSE calls[c].transport.statusText

\* A delete whose request ended in an error with status 400 was rejected with
\* 'Directory not found'.
C7_Witness ==
  \E c \in Issued :
    /\ calls[c].inv.op = "delete"
    /\ calls[c].xhr.event = "error"
    /\ calls[c].xhr.status = 400
    /\ calls[c].promise.message = "Directory not found"

\* C8: the first resolve or reject invocation on a PromiseDelegate alone
\* determines the outcome, and every observer is notified exactly once, of
\* that outcome, whether it was attached before or after settlement.
C8_SettlesOnce ==
  /\ pdLog = <<>> => pd = Pending
  /\ pdLog # <<>> => pd \in {pdLog[1], Unlocked(pdLog[1])}
  /\ \A i \in 1..Len(observers) :
       /\ observers[i].notified <= 1
       /\ observers[i].notified = 1 => observers[i].seen = Unlocked(pdLog[1])
  /\ (Settled(pd) /\ jobs = <<>>) => \A i \in 1..Len(observers) : observers[i].notified = 1

\* A resolve followed by a reject, with one observer attached before and one
\* after settlement, both notified.
C8_Witness ==
  /\ Len(pdLog) >= 2
  /\ pdLog[1].state = "fulfilled"
  /\ pdLog[2].state = "rejected"
  /\ pd = pdLog[1]
  /\ Len(observers) = 2
  /\ observers[1].early /\ ~observers[2].early
  /\ \A i \in 1..2 : observers[i].notified = 1 /\ observers[i].seen = pdLog[1]

\* Idle, Requested, Succeeded or Failed.
Phase(call) ==
  IF call.inv.op = "none" THEN "Idle"
  ELSE IF call.promise.state = "fulfilled" THEN "Succeeded"
  ELSE IF call.promise.state = "rejected" THEN "Failed"
  ELSE "Requested"

OneRequestPerCall ==
  \A c \in CallIds :
    Len(calls[c].requests) = (IF calls[c].inv.op = "none" THEN 0 ELSE 1)

CallStep ==
  \A c \in CallIds :
    /\ Phase(calls[c]) = "Idle" => Phase(calls'[c]) \in {"Idle", "Requested"}
    /\ Phase(calls[c]) = "Requested" =>
         /\ Phase(calls'[c]) \in {"Requested", "Succeeded", "Failed"}
         /\ calls'[c].inv = calls[c].inv
         /\ calls'[c].requests = calls[c].requests
    /\ Phase(calls[c]) \in {"Succeeded", "Failed"} =>
         /\ calls'[c].promise = calls[c].promise
         /\ calls'[c].requests = calls[c].requests

\* C9: a call sends exactly one request, moves from Idle to Requested and from
\* there to Succeeded or Failed, and once it is Succeeded or Failed neither
\* its outcome changes nor is another request sent.
C9_CallStateMachine == []OneRequestPerCall /\ [][CallStep]_vars

\* A call that failed on an error event, and has sent one request.
C9_Witness ==
  \E c \in Issued :
    /\ calls[c].xhr.event = "error"
    /\ Phase(calls[c]) = "Failed"
    /\ Len(calls[c].requests) = 1

\* C10: the API root stays join(base, 'api/contents'), and calls with the same
\* operation and arguments send the same request and, on the same response,
\* have the same outcome, whatever the other calls did in between.
C10_Independence ==
  /\ apiUrl = urlPathJoin(<<baseUrl, SERVICE_CONTENTS_URL>>)
  /\ \A c1 \in Issued, c2 \in Issued :
       calls[c1].inv = calls[c2].inv
         => /\ calls[c1].requests = calls[c2].requests
            /\ calls[c1].xhr = calls[c2].xhr
                 => /\ calls[c1].transport = calls[c2].transport
                    /\ calls[c1].promise = calls[c2].promise

\* Two calls in flight together, of the same operation, that got the same
\* response on a load event and have the same settled outcome.
C10_Witness ==
  \E c1 \in Issued, c2 \in Issued :
    /\ c1 # c2
    /\ calls[c1].inv = calls[c2].inv
    /\ calls[c1].xhr = calls[c2].xhr
    /\ calls[c1].xhr.event = "load"
    /\ Settled(calls[c1].promise)
    /\ calls[c1].promise = calls[c2].promise

\* C11: listCheckpoints rejects an accepted-status payload that is not an
\* array, a single valid checkpoint object included, and resolves an empty
\* array with the empty array.
C11_CheckpointListIsSequence ==
  \A c \in Issued :
    (/\ calls[c].inv.op = "listCheckpoints"
     /\ calls[c].transport.state = "fulfilled"
     /\ calls[c].transport.status = 200)
      => /\ calls[c].transport.data.kind # "array"
              => /\ calls[c].promise.state = "rejected"
                 /\ calls[c].promise.message = "Invalid Checkpoint list"
         /\ calls[c].transport.data = JArray(<<>>)
              => /\ calls[c].promise.state = "fulfilled"
                 /\ calls[c].promise.data = JArray(<<>>)

\* A listCheckpoints answered 200 with one valid checkpoint object, not in an
\* array, was rejected.
C11_Witness ==
  \E c \in Issued :
    /\ calls[c].inv.op = "listCheckpoints"
    /\ calls[c].xhr.status = 200
    /\ calls[c].transport.data = JObject(Checkpoint1)
    /\ validateCheckpointModel(calls[c].transport.data)
    /\ calls[c].promise.state = "rejected"

\* A listCheckpoints answered 200 with the empty array resolved with it.
EmptyCheckpointListResolved ==
  \E c \in Issued :
    /\ calls[c].inv.op = "listCheckpoints"
    /\ calls[c].xhr.response = JsonBody(JArray(<<>>))
    /\ calls[c].promise = Return(JArray(<<>>))

(***************************************************************************)
(* Properties of the URL utilities.                                        *)
(***************************************************************************)
\* The string has two '/' in a row somewhere.
HasSlashRun(s) == firstSlashRun(s, 1) # 0

IsEmptyString(s) == s = <<>>

IsNonEmptyString(s) == s # <<>>

\* The pieces of s between its '/', the empty ones left out.
NonEmptyPieces(s) == SelectSeq(split(s, 1, <<>>), IsNonEmptyString)

RECURSIVE PiecesOfAll(_)
PiecesOfAll(segments) ==
  IF Len(segments) = 0 THEN <<>>
  ELSE NonEmptyPieces(segments[1]) \o PiecesOfAll(Tail(segments))

\* A segment with something between its slashes and no two '/' in a row.
PlainSegment(s) == s = <<>> \/ (NonEmptyPieces(s) # <<>> /\ ~HasSlashRun(s))

\* C13: urlPathJoin skips empty segments and puts exactly one '/' between
\* consecutive non-empty segments, whether or not the earlier one ends with
\* '/' or the later one starts with '/'.  Stated on segments that have no
\* repeated '/' of their own: the result has none either, and it has the
\* pieces of the segments in order.
C13_JoinSingleSlash ==
  (joinResult # <<>> /\ \A i \in 1..Len(joinArgs) : PlainSegment(joinArgs[i]))
    => /\ ~HasSlashRun(joinResult[1])
       /\ NonEmptyPieces(joinResult[1]) = PiecesOfAll(joinArgs)

\* The part of C13 that the code keeps: the same, when no segment after the
\* first non-empty one starts with '/'.
JoinSingleSlashWithoutLeadingSlash ==
  (/\ joinResult # <<>>
   /\ \A i \in 1..Len(joinArgs) : PlainSegment(joinArgs[i])
   /\ \A i \in 2..Len(joinArgs) :
        (joinArgs[i] # <<>> /\ joinArgs[i][1] = "/")
          => \A j \in 1..(i - 1) : joinArgs[j] = <<>>)
    => /\ ~HasSlashRun(joinResult[1])
       /\ NonEmptyPieces(joinResult[1]) = PiecesOfAll(joinArgs)

\* The three joins the spec gives as examples come out as it says.
JoinExamples ==
  /\ (joinResult # <<>> /\ joinArgs = <<<<"a", "/">>, <<>>, <<"a">>>>)
       => joinResult[1] = <<"a", "/", "a">>
  /\ (joinResult # <<>> /\ joinArgs = <<<<>>, <<"a">>>>) => joinResult[1] = <<"a">>
  /\ (joinResult # <<>> /\ joinArgs = <<<<"a">>, <<"a">>>>)
       => joinResult[1] = <<"a", "/", "a">>

\* urlPathJoin as its loop would be with the replaced `path` appended.
RECURSIVE collapsingJoinFrom(_, _, _)
collapsingJoinFrom(segments, i, url) ==
  IF i > Len(segments) THEN url
  ELSE
    LET path == IF i > 1 THEN replaceSlashRun(segments[i]) ELSE segments[i]
    IN  IF path = <<>> THEN collapsingJoinFrom(segments, i + 1, url)
        ELSE IF Len(url) > 0 /\ Last(url) # "/"
          THEN collapsingJoinFrom(segments, i + 1, url \o <<"/">> \o path)
          ELSE collapsingJoinFrom(segments, i + 1, url \o path)

\* The segment starts or ends with two or more '/'.
HasBoundarySlashRun(s) ==
  /\ Len(s) >= 2
  /\ \/ s[1] = "/" /\ s[2] = "/"
     \/ s[Len(s)] = "/" /\ s[Len(s) - 1] = "/"

\* C16: when a segment after the first starts or ends with a run of '/', the
\* result of urlPathJoin has a single '/' in place of the run.
C16_JoinCollapsesSlashRuns ==
  (joinResult # <<>> /\ \E i \in 2..Len(joinArgs) : HasBoundarySlashRun(joinArgs[i]))
    => joinResult[1] = collapsingJoinFrom(joinArgs, 1, <<>>)

\* What the code does with such a segment: it comes out as it went in.
JoinKeepsSlashRuns ==
  (joinResult # <<>> /\ Len(joinArgs) = 2 /\ joinArgs[1] = <<"a">>)
    => joinResult[1] = <<"a", "/">> \o joinArgs[2] \/ joinArgs[2] = <<>>

\* The number of '/' in s.
RECURSIVE CountSlashes(_)
CountSlashes(s) ==
  IF Len(s) = 0 THEN 0
  ELSE (IF s[1] = "/" THEN 1 ELSE 0) + CountSlashes(Tail(s))

\* s has the escape %2F (or %2f) of '/' at index i.
EscapedSlashAt(s, i) ==
  /\ i + 2 <= Len(s)
  /\ s[i] = "%" /\ s[i + 1] = "2" /\ s[i + 2] \in {"F", "f"}

\* C20: encodeURIComponents keeps every '/' of its argument as a separator,
\* escapes no '/', and gives between the separators the percent-encoding of
\* the corresponding piece of the argument.
C20_EncodeKeepsSeparators ==
  encodeResult # <<>>
    => LET out == encodeResult[1]
           inPieces == split(uriArg, 1, <<>>)
           outPieces == split(out, 1, <<>>)
       IN  /\ CountSlashes(out) = CountSlashes(uriArg)
           /\ \A i \in 1..Len(out) : ~EscapedSlashAt(out, i)
           /\ Len(outPieces) = Len(inPieces)
           /\ \A i \in 1..Len(inPieces) : outPieces[i] = encodeURIComponent(inPieces[i])

\* 'a /a' was encoded to 'a%20/a'.
C20_Witness ==
  /\ uriArg = <<"a", " ", "/", "a">>
  /\ encodeResult = <<<<"a", "%", "2", "0", "/", "a">>>>

(***************************************************************************)
(* Properties of the requests the operations build.                        *)
(***************************************************************************)
\* The request URL up to its query string.
RECURSIVE UrlPath(_)
UrlPath(url) ==
  IF Len(url) = 0 \/ url[1] = "?" THEN <<>> ELSE <<url[1]>> \o UrlPath(Tail(url))

\* <root>/api/contents, the root being the base URL without a closing '/'.
ApiRoot ==
  (IF Len(baseUrl) > 0 /\ Last(baseUrl) = "/"
     THEN SubSeq(baseUrl, 1, Len(baseUrl) - 1) ELSE baseUrl)
  \o <<"/">> \o SERVICE_CONTENTS_URL

\* The path an invocation addresses: copy posts to toDir.
TargetPath(inv) == IF inv.op = "copy" THEN inv.second ELSE inv.path

\* The segments after the path: 'checkpoints' and the checkpoint id.
CheckpointSegments(inv) ==
  IF inv.op \in {"createCheckpoint", "listCheckpoints"}
    THEN <<<<"c", "h", "e", "c", "k", "p", "o", "i", "n", "t", "s">>>>
  ELSE IF inv.op \in {"restoreCheckpoint", "deleteCheckpoint"}
    THEN <<<<"c", "h", "e", "c", "k", "p", "o", "i", "n", "t", "s">>, inv.second>>
  ELSE <<>>

\* url is <root>/api/contents followed by the encoded segments of the
\* invocation, one '/' before each.
UrlShape(inv, url) ==
  LET root == ApiRoot
      rest == SubSeq(url, Len(root) + 1, Len(url))
  IN  /\ Len(url) >= Len(root)
      /\ SubSeq(url, 1, Len(root)) = root
      /\ ~HasSlashRun(url)
      /\ rest # <<>> => rest[1] = "/"
      /\ NonEmptyPieces(rest)
           = mapEncode(NonEmptyPieces(TargetPath(inv)) \o CheckpointSegments(inv))

\* C12: the URL of every request is <root>/api/contents/<path>, then
\* /checkpoints and /<id> for the checkpoint operations, with exactly one '/'
\* between consecutive parts and every segment percent-encoded, for paths
\* that start or end with '/' and for the empty path too.
C12_RequestUrlShape ==
  \A c \in Issued : UrlShape(calls[c].inv, UrlPath(calls[c].requests[1].url))

\* The part of C12 that the code keeps: the same for the paths that do not
\* start with '/'.
RequestUrlShapeWithoutLeadingSlash ==
  \A c \in Issued :
    (TargetPath(calls[c].inv) = <<>> \/ TargetPath(calls[c].inv)[1] # "/")
      => UrlShape(calls[c].inv, UrlPath(calls[c].requests[1].url))

\* listCheckpoints on the empty path went to <root>/api/contents/checkpoints.
EmptyPathCheckpointsUrl ==
  \E c \in Issued :
    /\ calls[c].inv.op = "listCheckpoints" /\ calls[c].inv.path = <<>>
    /\ calls[c].requests[1].url
         = ApiRoot \o <<"/", "c", "h", "e", "c", "k", "p", "o", "i", "n", "t", "s">>

\* The pieces of s between the occurrences of sep.
RECURSIVE SplitOn(_, _, _, _)
SplitOn(s, sep, i, piece) ==
  IF i > Len(s) THEN <<piece>>
  ELSE IF s[i] = sep THEN <<piece>> \o SplitOn(s, sep, i + 1, <<>>)
  ELSE SplitOn(s, sep, i + 1, Append(piece, s[i]))

\* The query of url: what follows its first '?'.
QueryOf(url) == SubSeq(url, Len(UrlPath(url)) + 2, Len(url))

\* The key=value parts of a query, as <<key, value>>.
QueryPairs(query) ==
  IF query = <<>> THEN <<>>
  ELSE LET parts == SplitOn(query, "&", 1, <<>>)
       IN  [i \in 1..Len(parts) |->
              LET kv == SplitOn(parts[i], "=", 1, <<>>)
              IN  <<kv[1], IF Len(kv) > 1 THEN kv[2] ELSE <<"?">>>>]

\* The query of a get request has exactly the wanted pairs, each once, and
\* the URL has its '?' even when there are none.
QueryIs(url, wanted) ==
  LET pairs == QueryPairs(QueryOf(url))
  IN  /\ Len(url) > Len(UrlPath(url))
      /\ {pairs[i] : i \in 1..Len(pairs)} = wanted
      /\ Len(pairs) = Cardinality(wanted)

ContentSuppressed(options) ==
  IF options.content = "false" THEN {<<<<"c", "o", "n", "t", "e", "n", "t">>, <<"0">>>>} ELSE {}

\* The pair of an option that is set, whatever its value.
SetParam(key, opt) ==
  IF Len(opt) = 1 THEN {<<key, encodeURIComponent(opt[1])>>} ELSE {}

\* The pair of an option that is set to a non-empty string.
NonEmptyParam(key, opt) ==
  IF Len(opt) = 1 /\ opt[1] # <<>> THEN {<<key, encodeURIComponent(opt[1])>>} ELSE {}

\* C14 as stated: the query of get has the keys among type and format that
\* the options set, with their values, and content=0 exactly when
\* options.content is false; nothing else, and a bare '?' when nothing is set.
C14_GetQueryOfSetOptions ==
  \A c \in Issued :
    calls[c].inv.op = "get"
      => QueryIs(calls[c].requests[1].url,
                 SetParam(<<"t", "y", "p", "e">>, calls[c].inv.options.type)
                 \cup SetParam(<<"f", "o", "r", "m", "a", "t">>, calls[c].inv.options.format)
                 \cup ContentSuppressed(calls[c].inv.options))

\* C14, amended: the query of get has the keys among type and format that
\* the options set to a non-empty string, with their values, and content=0
\* exactly when options.content is false; nothing else, and a bare '?' when
\* there is no such option.
C14_GetQueryOfNonEmptyOptions ==
  \A c \in Issued :
    calls[c].inv.op = "get"
      => QueryIs(calls[c].requests[1].url,
                 NonEmptyParam(<<"t", "y", "p", "e">>, calls[c].inv.options.type)
                 \cup NonEmptyParam(<<"f", "o", "r", "m", "a", "t">>, calls[c].inv.options.format)
                 \cup ContentSuppressed(calls[c].inv.options))

\* get('a b', {type: 'file', format: 'text', content: false}) was requested
\* with the query type=file&format=text&content=0.
C14_Witness ==
  \E c \in Issued :
    /\ calls[c].inv.op = "get" /\ calls[c].inv.options = OptionsAll
    /\ QueryOf(calls[c].requests[1].url)
         = <<"t", "y", "p", "e", "=", "f", "i", "l", "e", "&",
             "f", "o", "r", "m", "a", "t", "=", "t", "e", "x", "t", "&",
             "c", "o", "n", "t", "e", "n", "t", "=", "0">>

\* get with nothing set, and get with type '' and content true, were
\* requested with a bare '?'.
BareQuestionMark ==
  \E c \in Issued :
    /\ calls[c].inv.op = "get" /\ calls[c].inv.options \in {NoOptions, OptionsEmptyType}
    /\ Last(calls[c].requests[1].url) = "?"
    /\ QueryOf(calls[c].requests[1].url) = <<>>

\* The values an optional field holds: none or one.
Given(opt) == {opt[i] : i \in 1..Len(opt)}

\* The properties of the body an invocation is to send.
BodyOf(inv) ==
  CASE inv.op = "rename" -> {<<"path", inv.second>>}
    [] inv.op = "copy" -> {<<"copy_from", inv.path>>}
    [] inv.op = "newUntitled" ->
         {<<"ext", v>> : v \in Given(inv.options.ext)}
         \cup {<<"type", v>> : v \in Given(inv.options.type)}
    [] inv.op = "save" ->
         {<<"type", v>> : v \in Given(inv.options.type)}
         \cup {<<"format", v>> : v \in Given(inv.options.format)}
         \cup {<<"ext", v>> : v \in Given(inv.options.ext)}
         \cup {<<"content", v>> : v \in {inv.options.content} \ {"undefined"}}
    [] OTHER -> {}

SendsBody(inv) ==
  \/ inv.op \in {"save", "rename", "copy"}
  \/ inv.op = "newUntitled" /\ inv.hasOptions

\* C18: a request has a body exactly for newUntitled with options ({ext,
\* type}), save (the model), rename ({path: newPath}) and copy ({copy_from:
\* fromFile}, sent to toDir's URL); a request with a body has Content-Type
\* application/json; get, delete and the checkpoint operations send none.
C18_RequestBody ==
  \A c \in Issued :
    LET inv == calls[c].inv
        req == calls[c].requests[1]
    IN  /\ req.hasBody <=> SendsBody(inv)
        /\ req.hasBody =>
             /\ req.contentType = "application/json"
             /\ {req.body[i] : i \in 1..Len(req.body)} = BodyOf(inv)
             /\ Len(req.body) = Cardinality(BodyOf(inv))
        /\ ~req.hasBody => req.body = <<>>
        /\ inv.op = "copy" =>
             NonEmptyPieces(SubSeq(req.url, Len(ApiRoot) + 1, Len(req.url)))
               = mapEncode(NonEmptyPieces(inv.second))
        /\ inv.op \in {"get", "listContents", "delete", "createCheckpoint", "listCheckpoints",
                       "restoreCheckpoint", "deleteCheckpoint"} => ~req.hasBody

\* copy('a b', 'd/n') posted {copy_from: 'a b'} as application/json to
\* <root>/api/contents/d/n.
C18_Witness ==
  \E c \in Issued :
    /\ calls[c].inv.op = "copy" /\ calls[c].inv.path = <<"a", " ", "b">>
    /\ calls[c].requests[1].method = "POST"
    /\ calls[c].requests[1].hasBody
    /\ calls[c].requests[1].body = <<<<"copy_from", <<"a", " ", "b">>>>>>
    /\ calls[c].requests[1].contentType = "application/json"
    /\ calls[c].requests[1].url = ApiRoot \o <<"/", "d", "/", "n">>

\* newUntitled without options sent no body, and newUntitled with empty
\* options sent the body {}.
NewUntitledBodies ==
  \E c \in Issued :
    /\ calls[c].inv.op = "newUntitled"
    /\ \/ ~calls[c].inv.hasOptions /\ ~calls[c].requests[1].hasBody
       \/ /\ calls[c].inv.hasOptions /\ calls[c].inv.options = NoOptions
          /\ calls[c].requests[1].hasBody /\ calls[c].requests[1].body = <<>>

(***************************************************************************)
(* Properties of the order of the checks on a response.                    *)
(***************************************************************************)
\* The index of the first element of items that is no checkpoint, or the
\* length of items when there is none.
LastValidated(items) ==
  LET bad == {i \in 1..Len(items) : ~validateCheckpointModel(JObject(items[i]))}
  IN  IF bad = {} THEN Len(items)
      ELSE CHOOSE i \in bad : \A j \in bad : i <= j

\* C15: the status is checked before the shape.  A response with a status
\* the operation does not accept rejects the call with 'Invalid Status:
\* <status>' whatever the payload, and the validator is not called; the
\* validator is called only after an accepted status.  listCheckpoints
\* checks the status, then that the payload is an array, then the elements
\* in order up to the first that is no checkpoint.
C15_GateOrdering ==
  \A c \in Issued :
    calls[c].transport.state = "fulfilled"
      => LET op == calls[c].inv.op
             status == calls[c].transport.status
             data == calls[c].transport.data
         IN  /\ status \notin AcceptedStatuses(op)
                  => /\ calls[c].promise = Throw(InvalidStatus(status))
                     /\ calls[c].validated = <<>>
             /\ calls[c].validated # <<>> => status \in AcceptedStatuses(op)
             /\ (op = "listCheckpoints" /\ status = 200 /\ data.kind # "array")
                  => /\ calls[c].promise = Throw("Invalid Checkpoint list")
                     /\ calls[c].validated = <<>>
             /\ (op = "listCheckpoints" /\ status = 200 /\ data.kind = "array")
                  => /\ calls[c].validated
                          = [i \in 1..LastValidated(data.items) |-> JObject(data.items[i])]
                     /\ calls[c].promise
                          = IF ShapeOk(op, data) THEN Return(data)
                            ELSE Throw("Invalid Checkpoint Model")

\* A get answered 500 with a content item that lacks its path was rejected
\* with 'Invalid Status: 500', the validator not called.
C15_Witness ==
  \E c \in Issued :
    /\ calls[c].inv.op = "get"
    /\ calls[c].transport.state = "fulfilled"
    /\ calls[c].transport.status = 500
    /\ calls[c].transport.data = JObject(ContentItemNoPath)
    /\ ~validateContentsModel(calls[c].transport.data)
    /\ calls[c].promise.state = "rejected"
    /\ calls[c].promise.message = "Invalid Status: 500"
    /\ calls[c].validated = <<>>

\* A listCheckpoints answered 200 with a list whose first element is no
\* checkpoint handed that element alone to the validator.
CheckpointLoopStopsAtFirstInvalid ==
  \E c \in Issued :
    /\ calls[c].inv.op = "listCheckpoints"
    /\ calls[c].transport.data = JArray(<<CheckpointNoId, Checkpoint1>>)
    /\ calls[c].transport.status = 200
    /\ calls[c].validated = <<JObject(CheckpointNoId)>>
    /\ calls[c].promise = Throw("Invalid Checkpoint Model")

NoBodyOperations == {"delete", "restoreCheckpoint", "deleteCheckpoint"}

\* C17: delete, restoreCheckpoint and deleteCheckpoint answered with status
\* 204 resolve with no value, whatever the body of the response, and do not
\* call the validator.
C17_NoBodyOperations ==
  \A c \in Issued :
    (/\ calls[c].inv.op \in NoBodyOperations
     /\ calls[c].xhr.event = "load"
     /\ calls[c].xhr.status = 204)
      => /\ calls[c].promise = Return(Undefined)
         /\ calls[c].validated = <<>>

\* The part of C17 that the code keeps: the same for a body that is empty
\* or is JSON, and these operations never call the validator.
NoBodyOperationsOnParsedBodies ==
  \A c \in Issued :
    calls[c].inv.op \in NoBodyOperations
      => /\ calls[c].validated = <<>>
         /\ (calls[c].transport.state = "fulfilled" /\ calls[c].transport.status = 204)
              => calls[c].promise = Return(Undefined)

\* A deleteCheckpoint answered 204 with a content item as body resolved
\* with no value.
NoBodyOperationIgnoresPayload ==
  \E c \in Issued :
    /\ calls[c].inv.op = "deleteCheckpoint"
    /\ calls[c].xhr.status = 204
    /\ calls[c].transport.data = JObject(ContentItemA)
    /\ calls[c].promise = Return(Undefined)

(***************************************************************************)
(* Properties of listContents.                                             *)
(***************************************************************************)
\* C19: listContents(path) does what get(path, {type: 'directory'}) does: the
\* two send the same request, a GET of the path's URL with the query
\* type=directory, and on the same response they have the same outcome.
C19_ListContentsIsGetDirectory ==
  \A c \in Issued, d \in Issued :
    (/\ calls[c].inv.op = "listContents"
     /\ calls[d].inv.op = "get"
     /\ calls[d].inv.options = OptionsDirectory
     /\ calls[c].inv.path = calls[d].inv.path)
      => /\ calls[c].requests = calls[d].requests
         /\ calls[c].requests[1].method = "GET"
         /\ ~calls[c].requests[1].hasBody
         /\ QueryOf(calls[c].requests[1].url)
              = <<"t", "y", "p", "e", "=", "d", "i", "r", "e", "c", "t", "o", "r", "y">>
         /\ calls[c].xhr = calls[d].xhr
              => /\ calls[c].promise = calls[d].promise
                 /\ calls[c].validated = calls[d].validated

\* listContents('a b') and get('a b', {type: 'directory'}) were both answered
\* 200 with a content item and resolved with it.
C19_Witness ==
  \E c \in Issued, d \in Issued :
    /\ calls[c].inv.op = "listContents" /\ calls[d].inv.op = "get"
    /\ calls[c].inv.path = <<"a", " ", "b">> /\ calls[d].inv.path = <<"a", " ", "b">>
    /\ calls[c].xhr.status = 200 /\ calls[d].xhr = calls[c].xhr
    /\ calls[c].promise = Return(JObject(ContentItemA))
    /\ calls[d].promise = Return(JObject(ContentItemA))

\* Both were answered 400 and rejected with 'Invalid Status: 400'.
ListingRejectedAlike ==
  \E c \in Issued, d \in Issued :
    /\ calls[c].inv.op = "listContents" /\ calls[d].inv.op = "get"
    /\ calls[c].inv.path = calls[d].inv.path
    /\ calls[c].xhr.status = 400 /\ calls[d].xhr = calls[c].xhr
    /\ calls[c].promise = Throw("Invalid Status: 400")
    /\ calls[d].promise = Throw("Invalid Status: 400")

====
